---- MODULE Spec2Model ----
(***************************************************************************)
(* A model of public/simple_calc.py: the damage calculator                *)
(* (PokemonDamageCalculator), its type chart, stat derivation, item and   *)
(* ability effects, the rounding pipeline and the 16-roll range.          *)
(*                                                                        *)
(* Conventions.                                                           *)
(*  - A Python float is the exact rational <<n, d>> in lowest terms with  *)
(*    d > 0.  Every float the model multiplies is a short decimal, and    *)
(*    int()/floor of the products the program forms agree with the exact  *)
(*    value on the inputs enumerated here.                                *)
(*  - A Python dict is a function whose DOMAIN is its key set.            *)
(*  - None is the empty tuple <<>> where the other values are tuples, and *)
(*    the record NoneObject where the other values are records or dicts.  *)
(*  - The Chinese string constants of the source are written in ASCII:    *)
(*    category "physical" is the source's wu-li, ability "technician" is  *)
(*    ji-shu-gao-shou, and so on; a move name is the tuple of its         *)
(*    characters so that the substring test of iron fist is a real test.  *)
(*  - A mutable dict lives in the heap under a reference; a Pokemon's     *)
(*    base_stats field holds the reference, as the Python object does.    *)
(***************************************************************************)
EXTENDS Integers, Sequences, FiniteSets, TLC

VARIABLES
  self,      \* the calculator object: its reference tables
  heap,      \* reference -> dict, the dicts that outlive a call
  attacker,  \* the attacker Pokemon record handed to the calls
  defender,  \* the defender Pokemon record
  move,      \* the move dict
  call,      \* the last call made: operation and arguments
  result,    \* what the last call returned (or the exception that escaped)
  first      \* the first explicit-roll direct call and its result

vars == <<self, heap, attacker, defender, move, call, result, first>>

----------------------------------------------------------------------------
(* Exact rationals for the program's floats. *)

RECURSIVE GCD(_, _)
GCD(a, b) == IF b = 0 THEN a ELSE GCD(b, a % b)

Abs(n) == IF n < 0 THEN -n ELSE n

R(n, d) ==
  LET g == GCD(Abs(n), Abs(d))
      s == IF d < 0 THEN -1 ELSE 1
  IN <<(s * n) \div g, (s * d) \div g>>

RInt(n) == <<n, 1>>
RMul(a, b) == R(a[1] * b[1], a[2] * b[2])
RAdd(a, b) == R(a[1] * b[2] + b[1] * a[2], a[2] * b[2])
RDivInt(a, k) == R(a[1], a[2] * k)
RLt(a, b) == a[1] * b[2] < b[1] * a[2]
RFloor(a) == a[1] \div a[2]
\* Python int(x): truncation toward zero
RTrunc(a) == IF a[1] >= 0 THEN a[1] \div a[2] ELSE -((-a[1]) \div a[2])

Zero == <<0, 1>>
Quarter == <<1, 4>>
Half == <<1, 2>>
One == <<1, 1>>
OneHalf == <<3, 2>>
Two == <<2, 1>>
Three == <<3, 1>>
Four == <<4, 1>>

Max(a, b) == IF a >= b THEN a ELSE b

----------------------------------------------------------------------------
(* Python values *)

None == <<>>
NoneObject == [isNone |-> TRUE]
IsNone(p) == DOMAIN p = {"isNone"}

\* dict.get(key, default)
Get(d, k, default) == IF k \in DOMAIN d THEN d[k] ELSE default

\* c in s, for a one-character c and a string s given as its characters
Contains(s, c) == \E i \in 1..Len(s) : s[i] = c

\* x in list
InList(x, l) == \E i \in 1..Len(l) : l[i] = x

\* str.strip() on the ability names the inputs use
Padded == (" technician " :> "technician") @@ (" blaze " :> "blaze") @@ ("  " :> "")
Strip(s) == IF s \in DOMAIN Padded THEN Padded[s] ELSE s

MkStats(hp, atk, def, spa, spd, spe) ==
  ("HP" :> hp) @@ ("Attack" :> atk) @@ ("Defense" :> def) @@
  ("Sp. Attack" :> spa) @@ ("Sp. Defense" :> spd) @@ ("Speed" :> spe)

----------------------------------------------------------------------------
(* _setup_type_effectiveness: attack type -> defense type -> multiplier *)

type_effectiveness ==
  [Normal |-> [Rock |-> Half, Ghost |-> Zero, Steel |-> Half],
   Fighting |-> [Normal |-> Two, Flying |-> Half, Poison |-> Half, Rock |-> Two,
                 Bug |-> Half, Ghost |-> Zero, Steel |-> Two, Psychic |-> Half,
                 Ice |-> Two, Dark |-> Two, Fairy |-> Half],
   Flying |-> [Fighting |-> Two, Rock |-> Half, Bug |-> Two, Steel |-> Half,
               Grass |-> Two, Electric |-> Half],
   Poison |-> [Poison |-> Half, Ground |-> Half, Rock |-> Half, Ghost |-> Half,
               Steel |-> Zero, Grass |-> Two, Fairy |-> Two],
   Ground |-> [Flying |-> Zero, Poison |-> Two, Rock |-> Two, Bug |-> Half,
               Steel |-> Two, Fire |-> Two, Grass |-> Half, Electric |-> Two],
   Rock |-> [Fighting |-> Half, Flying |-> Two, Ground |-> Half, Bug |-> Two,
             Steel |-> Half, Fire |-> Two, Ice |-> Two],
   Bug |-> [Fighting |-> Half, Flying |-> Half, Poison |-> Half, Ghost |-> Half,
            Steel |-> Half, Fire |-> Half, Grass |-> Two, Psychic |-> Two,
            Dark |-> Two, Fairy |-> Half],
   Ghost |-> [Normal |-> Zero, Ghost |-> Two, Psychic |-> Two, Dark |-> Half],
   Steel |-> [Rock |-> Two, Steel |-> Half, Fire |-> Half, Water |-> Half,
              Electric |-> Half, Ice |-> Two, Fairy |-> Two],
   Fire |-> [Rock |-> Half, Bug |-> Two, Steel |-> Two, Fire |-> Half,
             Water |-> Half, Grass |-> Two, Ice |-> Two, Dragon |-> Half],
   Water |-> [Ground |-> Two, Rock |-> Two, Fire |-> Two, Water |-> Half,
              Grass |-> Half, Dragon |-> Half],
   Grass |-> [Flying |-> Half, Poison |-> Half, Ground |-> Two, Rock |-> Two,
              Bug |-> Half, Steel |-> Half, Fire |-> Half, Water |-> Two,
              Grass |-> Half, Dragon |-> Half],
   Electric |-> [Flying |-> Two, Ground |-> Zero, Water |-> Two, Grass |-> Half,
                 Electric |-> Half, Dragon |-> Half],
   Psychic |-> [Fighting |-> Two, Poison |-> Two, Steel |-> Half,
                Psychic |-> Half, Dark |-> Zero],
   Ice |-> [Flying |-> Two, Ground |-> Two, Steel |-> Half, Fire |-> Half,
            Water |-> Half, Grass |-> Two, Ice |-> Half, Dragon |-> Two],
   Dragon |-> [Steel |-> Half, Dragon |-> Two, Fairy |-> Zero],
   Dark |-> [Fighting |-> Half, Ghost |-> Two, Psychic |-> Two, Dark |-> Half,
             Fairy |-> Half],
   Fairy |-> [Fighting |-> Two, Poison |-> Half, Steel |-> Half, Fire |-> Half,
              Dragon |-> Two, Dark |-> Two]]

----------------------------------------------------------------------------
(* get_type_effectiveness *)

\* the loop body: one defense type's factor
TypeFactor(chart, attack_type, defense_type) ==
  IF defense_type \in DOMAIN chart[attack_type]
  THEN chart[attack_type][defense_type]
  ELSE One

RECURSIVE TypeProduct(_, _, _, _)
TypeProduct(chart, attack_type, defense_types, i) ==
  IF i = 0 THEN One
  ELSE RMul(TypeProduct(chart, attack_type, defense_types, i - 1),
            TypeFactor(chart, attack_type, defense_types[i]))

\* the chain with its first branch returning 0.125
NormalizeTypo(effectiveness) ==
  IF effectiveness = Quarter THEN <<1, 8>>
  ELSE IF effectiveness = Four THEN Four
  ELSE IF effectiveness = Half THEN Half
  ELSE IF effectiveness = Two THEN Two
  ELSE One

\* the if/elif chain after the loop: 0.25, 4.0, 0.5, 2.0 pass, all else is 1.0
Normalize(effectiveness) ==
  IF effectiveness = Quarter THEN Quarter
  ELSE IF effectiveness = Four THEN Four
  ELSE IF effectiveness = Half THEN Half
  ELSE IF effectiveness = Two THEN Two
  ELSE One

get_type_effectiveness(chart, attack_type, defense_types) ==
  IF attack_type \notin DOMAIN chart THEN One
  ELSE Normalize(TypeProduct(chart, attack_type, defense_types, Len(defense_types)))


----------------------------------------------------------------------------
(* calculate_stats *)

\* nature_multiplier: 1.0 unless the nature is known and has the stat
NatureMultiplier(natures, nature, stat_name) ==
  IF nature \in DOMAIN natures THEN Get(natures[nature], stat_name, One) ELSE One

\* the core without the EV term
StatCoreNoEv(base_value, iv, ev, level) ==
  ((base_value * 2 + iv) * level) \div 100

\* (Base * 2 + IV + EV // 4) * Level // 100, shared by both branches
StatCore(base_value, iv, ev, level) ==
  ((base_value * 2 + iv + ev \div 4) * level) \div 100

\* one iteration of the loop over pokemon.base_stats.items()
DerivedStat(natures, pokemon, stat_name, base_value) ==
  LET iv == Get(pokemon.ivs, stat_name, 31)
      ev == Get(pokemon.evs, stat_name, 0)
      core == StatCore(base_value, iv, ev, pokemon.level)
  IN IF stat_name = "HP"
     THEN core + pokemon.level + 10
     ELSE RTrunc(RMul(RInt(core + 5),
                      NatureMultiplier(natures, pokemon.nature, stat_name)))

\* stats = pokemon.base_stats: the derived values written over the base ones
StatsTargetInPlace(pokemon, fresh) == pokemon.base_stats

\* stats = {}: the dict the derived values are written to is a new one
StatsTarget(pokemon, fresh) == fresh

\* returns the heap after the writes and the reference of the returned dict,
\* or the exception raised
calculate_stats(h, natures, pokemon, fresh) ==
  IF IsNone(pokemon)
  THEN [exc |-> "'NoneType' object has no attribute 'base_stats'"]
  ELSE LET base == h[pokemon.base_stats]
           target == StatsTarget(pokemon, fresh)
           stats == [k \in DOMAIN base |-> DerivedStat(natures, pokemon, k, base[k])]
       IN [exc |-> "", heap |-> (target :> stats) @@ h, ref |-> target]

----------------------------------------------------------------------------
(* apply_attacker_item_effects / apply_defender_item_effects *)

\* modified_stats[stat_name] = int(modified_stats[stat_name] * multiplier),
\* guarded by "if stat_name in modified_stats"
ScaleStat(stats, stat_name, multiplier) ==
  IF stat_name \in DOMAIN stats
  THEN [stats EXCEPT ![stat_name] = RTrunc(RMul(RInt(stats[stat_name]), multiplier))]
  ELSE stats

\* for stat_name in names: ...
RECURSIVE ScaleStats(_, _, _, _)
ScaleStats(stats, names, multiplier, i) ==
  IF i = 0 THEN stats
  ELSE ScaleStat(ScaleStats(stats, names, multiplier, i - 1), names[i], multiplier)

\* a str or a list of str: isinstance(target_pokemon, list)
IsList(v) == DOMAIN v = {"list"}

IsTargetPokemon(pokemon_name, target_pokemon) ==
  IF IsList(target_pokemon)
  THEN InList(pokemon_name, target_pokemon.list)
  ELSE pokemon_name = target_pokemon.str

\* the stats dict after the attacker item's branch, given the copy
AttackerItemStats(item_data, pokemon, copy) ==
  IF item_data.type = "attack_boost"
  THEN ScaleStat(copy, item_data.stat, item_data.multiplier)
  ELSE IF /\ item_data.type = "special_pokemon"
          /\ IsTargetPokemon(pokemon.name, item_data.pokemon)
          /\ Get(item_data, "effect", "None") # "damage"
  THEN LET names == Get(item_data, "stats", <<>>)
       IN ScaleStats(copy, names, item_data.multiplier, Len(names))
  ELSE copy

\* the same with type_multiplier >= 1.0 for the type_advantage branch
AttackerItemMultiplierAtLeastOne(item_data, pokemon, type_multiplier) ==
  IF item_data.type = "damage_boost"
  THEN RMul(One, item_data.multiplier)
  ELSE IF /\ item_data.type = "special_pokemon"
          /\ IsTargetPokemon(pokemon.name, item_data.pokemon)
          /\ Get(item_data, "effect", "None") = "damage"
  THEN RMul(One, item_data.multiplier)
  ELSE IF item_data.type = "type_advantage" /\ ~RLt(type_multiplier, One)
  THEN RMul(One, item_data.multiplier)
  ELSE One

\* damage_multiplier after the attacker item's branch
AttackerItemMultiplier(item_data, pokemon, type_multiplier) ==
  IF item_data.type = "damage_boost"
  THEN RMul(One, item_data.multiplier)
  ELSE IF /\ item_data.type = "special_pokemon"
          /\ IsTargetPokemon(pokemon.name, item_data.pokemon)
          /\ Get(item_data, "effect", "None") = "damage"
  THEN RMul(One, item_data.multiplier)
  ELSE IF item_data.type = "type_advantage" /\ RLt(One, type_multiplier)
  THEN RMul(One, item_data.multiplier)
  ELSE One

apply_attacker_item_effects(h, attacker_items, pokemon, stats, move_type, type_multiplier, fresh) ==
  IF pokemon.item = "" \/ pokemon.item \notin DOMAIN attacker_items
  THEN [heap |-> h, stats |-> stats, damage_multiplier |-> One]
  ELSE LET item_data == attacker_items[pokemon.item]
           modified_stats == AttackerItemStats(item_data, pokemon, h[stats])
       IN [heap |-> (fresh :> modified_stats) @@ h,
           stats |-> fresh,
           damage_multiplier |->
             AttackerItemMultiplier(item_data, pokemon, type_multiplier)]

\* evolution_stone applies only to a species recorded as not final
IsNotFinal(pokemon_data, pokemon) ==
  /\ pokemon.id \in DOMAIN pokemon_data
  /\ Get(pokemon_data[pokemon.id], "evolution_stage", "unknown") = "not_final"

DefenderItemStats(item_data, pokemon_data, pokemon, copy) ==
  IF item_data.type = "defense_boost"
  THEN ScaleStat(copy, item_data.stat, item_data.multiplier)
  ELSE IF item_data.type = "evolution_stone" /\ IsNotFinal(pokemon_data, pokemon)
  THEN ScaleStats(copy, item_data.stats, item_data.multiplier, Len(item_data.stats))
  ELSE copy

DefenderItemMultiplier(item_data) ==
  IF item_data.type = "damage_reduction"
  THEN RMul(One, item_data.multiplier)
  ELSE One

apply_defender_item_effects(h, defender_items, pokemon_data, pokemon, stats, fresh) ==
  IF pokemon.item = "" \/ pokemon.item \notin DOMAIN defender_items
  THEN [heap |-> h, stats |-> stats, damage_multiplier |-> One]
  ELSE LET item_data == defender_items[pokemon.item]
           modified_stats == DefenderItemStats(item_data, pokemon_data, pokemon, h[stats])
       IN [heap |-> (fresh :> modified_stats) @@ h,
           stats |-> fresh,
           damage_multiplier |-> DefenderItemMultiplier(item_data)]

----------------------------------------------------------------------------
(* apply_offensive_ability_effects / apply_defensive_ability_effects *)

\* move.get('power', 0): a present key may hold None
MovePower(mv) == Get(mv, "power", <<0>>)

\* the map with the types of blaze and torrent exchanged
hp_trigger_map_swapped ==
  [blaze |-> "Water", torrent |-> "Fire", swarm |-> "Bug", grass_pelt |-> "Grass"]

hp_trigger_map ==
  [blaze |-> "Fire", torrent |-> "Water", swarm |-> "Bug", grass_pelt |-> "Grass"]

\* getattr(self, 'offensive_abilities', {})
AbilityTable(slf, attr) == Get(slf, attr, <<>>)

\* None <= 60 raises TypeError
TechnicianRaises(name, mv) == name = "technician" /\ MovePower(mv) = None

apply_offensive_ability_effects(slf, att, mv, other_modifiers, stab_multiplier, critical_multiplier, type_multiplier, critical_hit) ==
  LET name == Strip(att.ability)
      unchanged == [exc |-> "",
                    other_modifiers |-> other_modifiers,
                    stab_multiplier |-> stab_multiplier,
                    critical_multiplier |-> critical_multiplier,
                    type_multiplier |-> type_multiplier]
  IN IF name = "" \/ name \notin DOMAIN AbilityTable(slf, "offensive_abilities")
     THEN unchanged
     ELSE IF TechnicianRaises(name, mv)
     THEN [exc |-> "'<=' not supported between instances of 'NoneType' and 'int'"]
     ELSE
       LET stab == IF name = "adaptability" /\ InList(mv.type, att.types)
                   THEN Two ELSE stab_multiplier
           om1 == IF name = "technician" /\ MovePower(mv)[1] <= 60
                  THEN RMul(other_modifiers, OneHalf) ELSE other_modifiers
           om2 == IF name = "iron_fist" /\ Contains(Get(mv, "name", <<>>), "quan")
                  THEN RMul(om1, <<6, 5>>) ELSE om1
           crit == IF name = "sniper" /\ critical_hit
                   THEN Three ELSE critical_multiplier
           tm == IF /\ name = "scrappy"
                    /\ type_multiplier = Zero
                    /\ mv.type \in {"Normal", "Fighting"}
                 THEN One ELSE type_multiplier
           om3 == IF name \in DOMAIN hp_trigger_map
                     /\ Get(mv, "type", "None") = hp_trigger_map[name]
                  THEN RMul(om2, OneHalf) ELSE om2
       IN [exc |-> "",
           other_modifiers |-> om3,
           stab_multiplier |-> stab,
           critical_multiplier |-> crit,
           type_multiplier |-> tm]

apply_defensive_ability_effects(slf, def, mv, other_modifiers, type_multiplier) ==
  LET name == def.ability
  IN IF name = "" \/ name \notin DOMAIN AbilityTable(slf, "defensive_abilities")
     THEN [other_modifiers |-> other_modifiers, type_multiplier |-> type_multiplier]
     ELSE
       LET atk_type == mv.type
           tm1 == IF name = "thick_fat" /\ atk_type \in {"Fire", "Ice"}
                  THEN RMul(type_multiplier, Half) ELSE type_multiplier
           tm2 == IF name = "dry_skin" /\ atk_type = "Water" THEN Zero ELSE tm1
           om1 == IF name = "dry_skin" /\ atk_type = "Fire"
                  THEN RMul(other_modifiers, <<5, 4>>) ELSE other_modifiers
           tm3 == IF name = "filter" /\ RLt(One, tm2)
                  THEN RMul(tm2, <<3, 4>>) ELSE tm2
           tm4 == IF name \in {"lightning_rod", "volt_absorb"} /\ atk_type = "Electric"
                  THEN Zero ELSE tm3
           tm5 == IF name = "storm_drain" /\ atk_type = "Water" THEN Zero ELSE tm4
           tm6 == IF name = "flash_fire" /\ atk_type = "Fire" THEN Zero ELSE tm5
           tm7 == IF name = "levitate" /\ atk_type = "Ground" THEN Zero ELSE tm6
           om2 == IF name = "light_armor" /\ Get(mv, "category", "None") = "physical"
                  THEN RMul(om1, Half) ELSE om1
       IN [other_modifiers |-> om2, type_multiplier |-> tm7]

----------------------------------------------------------------------------
(* _round_half_up and the pieces of calculate_damage_direct *)

\* int(math.floor(value + 0.5))
round_half_up(value) == RFloor(RAdd(value, Half))

\* the screens block with each screen acting on every move
ScreenedDefenseAnyCategory(screens, category, defense_stat) ==
  LET d1 == IF InList("reflect", screens)
            THEN RTrunc(RMul(RInt(defense_stat), OneHalf)) ELSE defense_stat
      d2 == IF InList("light_screen", screens)
            THEN RTrunc(RMul(RInt(d1), OneHalf)) ELSE d1
  IN d2

\* the screens block: reflect on a physical move, light_screen on any other
ScreenedDefense(screens, category, defense_stat) ==
  LET d1 == IF InList("reflect", screens) /\ category = "physical"
            THEN RTrunc(RMul(RInt(defense_stat), OneHalf)) ELSE defense_stat
      d2 == IF InList("light_screen", screens) /\ category # "physical"
            THEN RTrunc(RMul(RInt(d1), OneHalf)) ELSE d1
  IN d2

\* the clamp with < for <=
ClampDefenseNegativeOnly(defense_stat) == IF defense_stat < 0 THEN 1 ELSE defense_stat

\* if defense_stat <= 0: defense_stat = 1
ClampDefense(defense_stat) == IF defense_stat <= 0 THEN 1 ELSE defense_stat

\* if power is None: power = 0
PowerOrZero(p) == IF p = None THEN 0 ELSE p[1]

\* the formula without its final + 2
BaseDamageNoOffset(level, power, attack_stat, defense_stat) ==
  LET base_numerator == ((2 * level) \div 5 + 2) * power * attack_stat
      base_div == base_numerator \div defense_stat
  IN base_div \div 50

\* the formula with (2 * level) // (5 + 2) for its level term
BaseDamagePrecedence(level, power, attack_stat, defense_stat) ==
  LET base_numerator == ((2 * level) \div (5 + 2)) * power * attack_stat
      base_div == base_numerator \div defense_stat
  IN base_div \div 50 + 2

\* base_numerator // defense_stat // 50 + 2
BaseDamage(level, power, attack_stat, defense_stat) ==
  LET base_numerator == ((2 * level) \div 5 + 2) * power * attack_stat
      base_div == base_numerator \div defense_stat
  IN base_div \div 50 + 2

\* burn halves a physical move unless the ability is guts
BurnModifier(att, category) ==
  IF att.status = "burn" /\ category = "physical" /\ att.ability # "guts"
  THEN Half ELSE One

\* the attacker's weather only when it is sunny or rain, else the defender's
WeatherOfRecognised(att, def) == IF att.weather \in {"sunny", "rain"} THEN att.weather ELSE def.weather

\* weather = attacker.weather or defender.weather or ""
WeatherOf(att, def) == IF att.weather # "" THEN att.weather ELSE def.weather

WeatherModifier(weather, move_type) ==
  IF weather = "sunny" /\ move_type = "Fire" THEN OneHalf
  ELSE IF weather = "sunny" /\ move_type = "Water" THEN Half
  ELSE IF weather = "rain" /\ move_type = "Water" THEN OneHalf
  ELSE IF weather = "rain" /\ move_type = "Fire" THEN Half
  ELSE One

AssistModifier(att) == IF att.assist_status = "help" THEN OneHalf ELSE One

\* math.floor(float_step4), without the lower bound
FinalModifierNoClamp(float_step4) == RFloor(float_step4)

\* max(1, math.floor(float_step4))
FinalModifier(float_step4) == Max(1, RFloor(float_step4))

\* int(base_damage + final_modifier)
FinalDamageAdd(base_damage, final_modifier) == base_damage + final_modifier

\* int(base_damage * final_modifier)
FinalDamage(base_damage, final_modifier) == base_damage * final_modifier

\* attacker.item if attacker.item else the "none" marker (wu)
ItemName(item) == IF item # "" THEN item ELSE "wu"

\* no except clause: the exception leaves the call
CaughtPropagates(prefix, exc) == [raised |-> exc]

\* except Exception as e: return {'error': f'Calculation error: {str(e)}'}
Caught(prefix, exc) == [error |-> prefix \o exc]

(* The try block of calculate_damage_direct, statement by statement.  Each *)
(* definition takes the values computed so far and yields the exception    *)
(* raised (exc) or the dict returned (ret), with the heap at that point.   *)

Raise(h, exc) == [exc |-> exc, heap |-> h]

\* the four running products and the returned dict
DamageResult(h, att, def, ai, di, attack_stat, defense_stat, base_damage, other_modifiers, critical_multiplier, rf, stab_multiplier, type_multiplier, float_step1, float_step2, float_step3, final_modifier) ==
  [exc |-> "",
   heap |-> h,
   ret |->
     [damage |-> FinalDamage(base_damage, final_modifier),
      base_damage |-> base_damage,
      modifiers |->
        [other_modifiers |-> other_modifiers,
         critical_multiplier |-> critical_multiplier,
         random_factor |-> rf,
         stab_multiplier |-> stab_multiplier,
         type_multiplier |-> type_multiplier,
         final_modifier |-> final_modifier,
         attacker_item_multiplier |-> ai.damage_multiplier,
         defender_item_multiplier |-> di.damage_multiplier],
      calculation_steps |->
        [step1_other_critical |-> round_half_up(float_step1),
         step2_random |-> round_half_up(float_step2),
         step3_stab |-> round_half_up(float_step3),
         step4_type |-> final_modifier],
      stats_used |->
        [attack_stat |-> attack_stat, defense_stat |-> defense_stat],
      items_used |->
        [attacker_item |-> ItemName(att.item),
         defender_item |-> ItemName(def.item)]]]

\* the steps as the docstring of calculate_damage lists them, each rounded
\* value fed into the next stage
RoundingStepsFedForward(h, att, def, ai, di, attack_stat, defense_stat, base_damage, other_modifiers, critical_multiplier, rf, stab_multiplier, type_multiplier) ==
  LET step1 == round_half_up(RMul(other_modifiers, critical_multiplier))
      step2 == RFloor(RMul(RInt(step1), rf))
      step3 == round_half_up(RMul(RInt(step2), stab_multiplier))
  IN DamageResult(h, att, def, ai, di, attack_stat, defense_stat, base_damage,
                  other_modifiers, critical_multiplier, rf, stab_multiplier,
                  type_multiplier, RInt(step1), RInt(step2), RInt(step3),
                  FinalModifier(RMul(RInt(step3), type_multiplier)))

\* float_step1 .. float_step4 and final_modifier
RoundingSteps(h, att, def, ai, di, attack_stat, defense_stat, base_damage, other_modifiers, critical_multiplier, rf, stab_multiplier, type_multiplier) ==
  DamageResult(h, att, def, ai, di, attack_stat, defense_stat, base_damage,
               other_modifiers, critical_multiplier, rf, stab_multiplier,
               type_multiplier,
               RMul(other_modifiers, critical_multiplier),
               RMul(RMul(other_modifiers, critical_multiplier), rf),
               RMul(RMul(RMul(other_modifiers, critical_multiplier), rf),
                    stab_multiplier),
               FinalModifier(
                 RMul(RMul(RMul(RMul(other_modifiers, critical_multiplier), rf),
                           stab_multiplier),
                      type_multiplier)))

\* if random_factor is None: random_factor = random.uniform(0.85, 1.0)
RandomFactor(random_factor, draw) == IF random_factor = None THEN draw ELSE random_factor

AfterDefensiveAbility(h, att, def, ai, di, attack_stat, defense_stat, base_damage, random_factor, draw, off, dfn) ==
  RoundingSteps(h, att, def, ai, di, attack_stat, defense_stat, base_damage,
                dfn.other_modifiers, off.critical_multiplier,
                RandomFactor(random_factor, draw), off.stab_multiplier,
                dfn.type_multiplier)

\* the same without the call of apply_defensive_ability_effects
AfterOffensiveAbilityOnly(slf, h, att, def, mv, ai, di, attack_stat, defense_stat, base_damage, random_factor, draw, off) ==
  IF off.exc # "" THEN Raise(h, off.exc)
  ELSE AfterDefensiveAbility(h, att, def, ai, di, attack_stat, defense_stat,
                             base_damage, random_factor, draw, off,
                             [other_modifiers |-> off.other_modifiers,
                              type_multiplier |-> off.type_multiplier])

\* the two ability calls, the offensive one first
AfterOffensiveAbility(slf, h, att, def, mv, ai, di, attack_stat, defense_stat, base_damage, random_factor, draw, off) ==
  IF off.exc # "" THEN Raise(h, off.exc)
  ELSE AfterDefensiveAbility(h, att, def, ai, di, attack_stat, defense_stat,
                             base_damage, random_factor, draw, off,
                             apply_defensive_ability_effects(
                               slf, def, mv, off.other_modifiers, off.type_multiplier))

\* other_modifiers before the abilities: burn, weather, assist, the two items
OtherModifiers(att, def, mv, ai, di) ==
  RMul(RMul(RMul(RMul(BurnModifier(att, mv.category),
                      WeatherModifier(WeatherOf(att, def), mv.type)),
                 AssistModifier(att)),
            ai.damage_multiplier),
       di.damage_multiplier)

CriticalMultiplier(critical_hit) == IF critical_hit THEN Two ELSE One

StabMultiplier(att, mv) == IF InList(mv.type, att.types) THEN OneHalf ELSE One

\* base_numerator // defense_stat raises ZeroDivisionError on a zero divisor
AfterStatChoice(slf, h, att, def, mv, critical_hit, random_factor, draw, type_multiplier, ai, di, attack_stat, defense_stat) ==
  IF defense_stat = 0 THEN Raise(h, "integer division or modulo by zero")
  ELSE
  AfterOffensiveAbility(slf, h, att, def, mv, ai, di, attack_stat, defense_stat,
                        BaseDamage(att.level, PowerOrZero(MovePower(mv)),
                                   attack_stat, defense_stat),
                        random_factor, draw,
                        apply_offensive_ability_effects(
                          slf, att, mv, OtherModifiers(att, def, mv, ai, di),
                          StabMultiplier(att, mv), CriticalMultiplier(critical_hit),
                          type_multiplier, critical_hit))

\* the stat pair the move's category selects
AttackStat(stats, category) ==
  IF category = "physical" THEN Get(stats, "Attack", 1) ELSE Get(stats, "Sp. Attack", 1)

DefenseStat(stats, category) ==
  IF category = "physical" THEN Get(stats, "Defense", 1) ELSE Get(stats, "Sp. Defense", 1)

AfterItems(slf, h, att, def, mv, critical_hit, random_factor, draw, type_multiplier, ai, di) ==
  IF "category" \notin DOMAIN mv THEN Raise(h, "'category'")
  ELSE AfterStatChoice(slf, h, att, def, mv, critical_hit, random_factor, draw,
                       type_multiplier, ai, di,
                       AttackStat(h[ai.stats], mv.category),
                       ClampDefense(ScreenedDefense(def.screens, mv.category,
                                      DefenseStat(h[di.stats], mv.category))))

AfterAttackerItem(slf, att, def, mv, critical_hit, random_factor, draw, type_multiplier, sd, ai) ==
  AfterItems(slf,
             apply_defender_item_effects(ai.heap, slf.defender_items,
                                         slf.pokemon_data, def, sd.ref, "m_d").heap,
             att, def, mv, critical_hit, random_factor, draw, type_multiplier, ai,
             apply_defender_item_effects(ai.heap, slf.defender_items,
                                         slf.pokemon_data, def, sd.ref, "m_d"))

AfterTypeChart(slf, att, def, mv, critical_hit, random_factor, draw, sa, sd, type_multiplier) ==
  AfterAttackerItem(slf, att, def, mv, critical_hit, random_factor, draw,
                    type_multiplier, sd,
                    apply_attacker_item_effects(sd.heap, slf.attacker_items, att,
                                                sa.ref, mv.type, type_multiplier, "m_a"))

AfterDefenderStats(slf, att, def, mv, critical_hit, random_factor, draw, sa, sd) ==
  IF sd.exc # "" THEN Raise(sa.heap, sd.exc)
  ELSE IF IsNone(mv) THEN Raise(sd.heap, "'NoneType' object is not subscriptable")
  ELSE IF "type" \notin DOMAIN mv THEN Raise(sd.heap, "'type'")
  ELSE AfterTypeChart(slf, att, def, mv, critical_hit, random_factor, draw, sa, sd,
                      get_type_effectiveness(slf.type_effectiveness, mv.type, def.types))

AfterAttackerStats(slf, h, att, def, mv, critical_hit, random_factor, draw, sa) ==
  IF sa.exc # "" THEN Raise(h, sa.exc)
  ELSE AfterDefenderStats(slf, att, def, mv, critical_hit, random_factor, draw, sa,
                          calculate_stats(sa.heap, slf.natures_data, def, "t_d"))

DamageBody(slf, h, att, def, mv, critical_hit, random_factor, draw) ==
  AfterAttackerStats(slf, h, att, def, mv, critical_hit, random_factor, draw,
                     calculate_stats(h, slf.natures_data, att, "t_a"))

\* try: ... except Exception
TryExcept(prefix, body) ==
  [heap |-> body.heap,
   ret |-> IF body.exc # "" THEN Caught(prefix, body.exc) ELSE body.ret]

\* the heap the call leaves and the value it returns
calculate_damage_direct(slf, h, att, def, mv, critical_hit, random_factor, draw) ==
  TryExcept("Calculation error: ",
            DamageBody(slf, h, att, def, mv, critical_hit, random_factor, draw))

----------------------------------------------------------------------------
(* calculate_damage_from_json *)

RequiredKeys == <<"id", "name", "types", "base_stats">>

RECURSIVE FirstMissing(_, _, _)
FirstMissing(d, keys, i) ==
  IF i > Len(keys) THEN ""
  ELSE IF keys[i] \notin DOMAIN d THEN keys[i]
  ELSE FirstMissing(d, keys, i + 1)

\* Pokemon(id=data['id'], ..., level=data.get('level', 50), ...)
PokemonFromJson(data) ==
  [id |-> data.id,
   name |-> data.name,
   types |-> data.types,
   base_stats |-> data.base_stats,
   level |-> Get(data, "level", 50),
   nature |-> Get(data, "nature", "hardy"),
   ability |-> Get(data, "ability", ""),
   item |-> Get(data, "item", ""),
   status |-> Get(data, "status", ""),
   weather |-> Get(data, "weather", ""),
   screens |-> Get(data, "screens", <<>>),
   assist_status |-> Get(data, "assist_status", ""),
   ivs |-> Get(data, "ivs", <<>>),
   evs |-> Get(data, "evs", <<>>)]

\* the exception the construction of one Pokemon raises, "" if none
PokemonJsonError(data) ==
  IF IsNone(data) THEN "'NoneType' object is not subscriptable"
  ELSE IF FirstMissing(data, RequiredKeys, 1) # ""
  THEN "'" \o FirstMissing(data, RequiredKeys, 1) \o "'"
  ELSE ""

JsonError(json_data) ==
  IF FirstMissing(json_data, <<"attacker", "defender", "move">>, 1) # ""
  THEN "'" \o FirstMissing(json_data, <<"attacker", "defender", "move">>, 1) \o "'"
  ELSE IF PokemonJsonError(json_data.attacker) # ""
  THEN PokemonJsonError(json_data.attacker)
  ELSE PokemonJsonError(json_data.defender)

calculate_damage_from_json(slf, h, json_data, draw) ==
  IF JsonError(json_data) # ""
  THEN [heap |-> h, ret |-> Caught("JSON parsing error: ", JsonError(json_data))]
  ELSE calculate_damage_direct(slf, h,
                               PokemonFromJson(json_data.attacker),
                               PokemonFromJson(json_data.defender),
                               json_data.move,
                               Get(json_data, "critical_hit", FALSE),
                               Get(json_data, "random_factor", None),
                               draw)

----------------------------------------------------------------------------
(* calculate_damage_range *)

RollCount == 16

\* the factor of range(1, 17)
RangeFactorFromOne(i) == RAdd(<<17, 20>>, RMul(R(i + 1, 15), <<3, 20>>))

\* the factors from 1.0 down to 0.85
RangeFactorDescending(i) == RAdd(<<17, 20>>, RMul(R(15 - i, 15), <<3, 20>>))

\* random_factor = 0.85 + (i / 15) * 0.15
RangeFactor(i) == RAdd(<<17, 20>>, RMul(R(i, 15), <<3, 20>>))

RECURSIVE RangeLoop(_, _, _, _, _, _, _, _)

\* the rest of iteration i, r being what calculate_damage_direct returned:
\* if 'error' not in result: damage_range.append(result['damage'])
RangeStep(slf, att, def, mv, critical_hit, i, damage_range, r) ==
  IF "error" \notin DOMAIN r.ret
  THEN RangeLoop(slf, r.heap, att, def, mv, critical_hit, i + 1,
                 Append(damage_range, r.ret.damage))
  ELSE RangeLoop(slf, r.heap, att, def, mv, critical_hit, i + 1, damage_range)

\* the loop from iteration i on, damage_range being the list so far: the
\* heap the loop leaves and the list returned
RangeLoop(slf, h, att, def, mv, critical_hit, i, damage_range) ==
  IF i >= RollCount THEN [heap |-> h, ret |-> damage_range]
  ELSE RangeStep(slf, att, def, mv, critical_hit, i, damage_range,
                 calculate_damage_direct(slf, h, att, def, mv, critical_hit,
                                         RangeFactor(i), One))

calculate_damage_range(slf, h, att, def, mv, critical_hit) ==
  RangeLoop(slf, h, att, def, mv, critical_hit, 0, <<>>)

----------------------------------------------------------------------------
(* calculate_damage: the move looked up in the catalog by id *)

\* the first entry of the catalog, whatever the id
CatalogMoveFirst(moves, move_id) == moves[CHOOSE k \in DOMAIN moves : TRUE]

\* move = self.moves_data[move_id]
CatalogMove(moves, move_id) == moves[move_id]

calculate_damage(slf, h, att, def, move_id, critical_hit, random_factor, draw) ==
  IF move_id \notin DOMAIN slf.moves_data
  THEN [heap |-> h, ret |-> [error |-> "Move not found"]]
  ELSE calculate_damage_direct(slf, h, att, def, CatalogMove(slf.moves_data, move_id),
                               critical_hit, random_factor, draw)

----------------------------------------------------------------------------
(* get_damage_statistics *)

\* the values of a list
Elements(damage_range) == {damage_range[i] : i \in 1..Len(damage_range)}

\* min(damage_range)
SeqMin(damage_range) ==
  CHOOSE x \in Elements(damage_range) : \A y \in Elements(damage_range) : x <= y

\* max(damage_range)
SeqMax(damage_range) ==
  CHOOSE x \in Elements(damage_range) : \A y \in Elements(damage_range) : x >= y

\* len([d for d in damage_range if d > defender_max_hp])
OhkoCountStrict(damage_range, defender_max_hp) ==
  Cardinality({i \in 1..Len(damage_range) : damage_range[i] > defender_max_hp})

\* len([d for d in damage_range if d >= defender_max_hp])
OhkoCount(damage_range, defender_max_hp) ==
  Cardinality({i \in 1..Len(damage_range) : damage_range[i] >= defender_max_hp})

\* one of the two entries of the returned dict; an empty range gives the
\* int 0 three times, a non-empty one the float count / 16
RangeStatistics(damage_range, defender_max_hp) ==
  IF damage_range = <<>>
  THEN [min |-> 0, max |-> 0, range |-> damage_range, ohko_chance |-> 0]
  ELSE [min |-> SeqMin(damage_range),
        max |-> SeqMax(damage_range),
        range |-> damage_range,
        ohko_chance |-> R(OhkoCount(damage_range, defender_max_hp), RollCount)]

\* the return statement
StatisticsResult(h, normal_range, critical_range, defender_max_hp) ==
  [heap |-> h,
   ret |-> [normal |-> RangeStatistics(normal_range, defender_max_hp),
            critical |-> RangeStatistics(critical_range, defender_max_hp)]]

\* defender_stats = self.calculate_stats(defender), outside any try block:
\* what it raises leaves the call
StatisticsWithDerivedHp(h, normal_range, critical_range, sd) ==
  IF sd.exc # "" THEN [heap |-> h, ret |-> [raised |-> sd.exc]]
  ELSE StatisticsResult(sd.heap, normal_range, critical_range,
                        Get(sd.heap[sd.ref], "HP", 1))

\* if defender_max_hp is None: ...
StatisticsAfterRanges(slf, def, defender_max_hp, nr, cr) ==
  IF defender_max_hp = None
  THEN StatisticsWithDerivedHp(cr.heap, nr.ret, cr.ret,
                               calculate_stats(cr.heap, slf.natures_data, def, "t_s"))
  ELSE StatisticsResult(cr.heap, nr.ret, cr.ret, defender_max_hp[1])

StatisticsAfterNormal(slf, att, def, mv, defender_max_hp, nr) ==
  StatisticsAfterRanges(slf, def, defender_max_hp, nr,
                        calculate_damage_range(slf, nr.heap, att, def, mv, TRUE))

get_damage_statistics(slf, h, att, def, mv, defender_max_hp) ==
  StatisticsAfterNormal(slf, att, def, mv, defender_max_hp,
                        calculate_damage_range(slf, h, att, def, mv, FALSE))

----------------------------------------------------------------------------
(* The calculator objects: __init__ with and without _load_data.  The     *)
(* catalogs are data read from disk; these are small catalogs with one    *)
(* entry of every kind the code branches on.                              *)

NoDict == <<>>

natures_data ==
  [hardy |-> MkStats(One, One, One, One, One, One),
   adamant |-> MkStats(One, <<11, 10>>, One, <<9, 10>>, One, One),
   bold |-> MkStats(One, <<9, 10>>, <<11, 10>>, One, One, One),
   calm |-> MkStats(One, <<9, 10>>, One, One, <<11, 10>>, One)]

attacker_items ==
  [choice_band |-> [type |-> "attack_boost", stat |-> "Attack", multiplier |-> OneHalf],
   choice_specs |-> [type |-> "attack_boost", stat |-> "Sp. Attack", multiplier |-> OneHalf],
   life_orb |-> [type |-> "damage_boost", multiplier |-> <<13, 10>>],
   light_ball |-> [type |-> "special_pokemon", pokemon |-> [str |-> "pikachu"],
                   stats |-> <<"Attack", "Sp. Attack">>, multiplier |-> Two],
   thick_club |-> [type |-> "special_pokemon",
                   pokemon |-> [list |-> <<"cubone", "marowak">>],
                   effect |-> "damage", multiplier |-> Two],
   expert_belt |-> [type |-> "type_advantage", multiplier |-> <<6, 5>>]]

defender_items ==
  [berry |-> [type |-> "damage_reduction", multiplier |-> Half],
   assault_vest |-> [type |-> "defense_boost", stat |-> "Sp. Defense",
                     multiplier |-> OneHalf],
   eviolite |-> [type |-> "evolution_stone", stats |-> <<"Defense", "Sp. Defense">>,
                 multiplier |-> OneHalf]]

OffensiveNames ==
  {"adaptability", "technician", "iron_fist", "sniper", "scrappy",
   "blaze", "torrent", "swarm", "grass_pelt", "guts"}

DefensiveNames ==
  {"thick_fat", "dry_skin", "filter", "lightning_rod", "volt_absorb",
   "storm_drain", "flash_fire", "levitate", "light_armor"}

offensive_abilities == [n \in OffensiveNames |-> [kind |-> "offensive"]]

defensive_abilities == [n \in DefensiveNames |-> [kind |-> "defensive"]]

pokemon_data ==
  (25 :> [name |-> "pikachu", evolution_stage |-> "not_final"]) @@
  (1 :> [name |-> "bulbasaur", evolution_stage |-> "not_final"]) @@
  (3 :> [name |-> "venusaur", evolution_stage |-> "final"])

\* the characters of a move's name; "quan" is the punch character
ThunderPunch == <<"lei", "dian", "quan">>
Thunderbolt == <<"shi", "wan", "fu", "te">>

MkMove(name, power, type, category) ==
  [name |-> name, power |-> power, type |-> type, category |-> category,
   accuracy |-> 100]

moves_data ==
  (85 :> MkMove(Thunderbolt, <<90>>, "Electric", "special")) @@
  (9 :> MkMove(ThunderPunch, <<75>>, "Electric", "physical")) @@
  (150 :> MkMove(<<"yue", "qi">>, <<0>>, "Normal", "physical"))

\* PokemonDamageCalculator(): every catalog loaded
LoadedCalculator ==
  [moves_data |-> moves_data,
   pokemon_data |-> pokemon_data,
   natures_data |-> natures_data,
   type_effectiveness |-> type_effectiveness,
   attacker_items |-> attacker_items,
   defender_items |-> defender_items,
   offensive_abilities |-> offensive_abilities,
   defensive_abilities |-> defensive_abilities]

\* PokemonDamageCalculator(load_data_files=False): empty catalogs and no
\* ability attributes at all
BareCalculator ==
  [moves_data |-> NoDict,
   pokemon_data |-> NoDict,
   natures_data |-> NoDict,
   type_effectiveness |-> type_effectiveness,
   attacker_items |-> NoDict,
   defender_items |-> NoDict]

----------------------------------------------------------------------------
(* The inputs the calls are applied to.  Pokemon is the dataclass; its    *)
(* __post_init__ fills screens, ivs and evs, so a constructed record has  *)
(* all fourteen fields.                                                   *)

MaxLevelStep == 2
MaxPowerStep == 3

Levels == {1} \cup {50 * k : k \in 1..MaxLevelStep}
Powers == {40 * k : k \in 0..MaxPowerStep}

DefaultIvs == MkStats(31, 31, 31, 31, 31, 31)
DefaultEvs == MkStats(0, 0, 0, 0, 0, 0)

Pokemon(id, name, types, base_stats) ==
  [id |-> id, name |-> name, types |-> types, base_stats |-> base_stats,
   level |-> 50, nature |-> "hardy", ability |-> "", item |-> "", status |-> "",
   weather |-> "", screens |-> <<>>, assist_status |-> "",
   ivs |-> DefaultIvs, evs |-> DefaultEvs]

\* a record with some fields replaced
With(p, fields) == [k \in DOMAIN p |-> IF k \in DOMAIN fields THEN fields[k] ELSE p[k]]

\* a dict without some keys
Without(d, keys) == [k \in DOMAIN d \ keys |-> d[k]]

PikachuBase == MkStats(35, 55, 40, 50, 50, 90)
BulbasaurBase == MkStats(45, 49, 49, 65, 65, 45)
ZeroBase == MkStats(0, 0, 0, 0, 0, 0)
HighBase == MkStats(255, 190, 230, 194, 230, 180)
\* a base_stats dict with a key no nature lists and without the special stats
OddBase == ("HP" :> 50) @@ ("Attack" :> 80) @@ ("Defense" :> 70) @@ ("Special" :> 60)

Pikachu == Pokemon(25, "pikachu", <<"Electric">>, "a_base")
Bulbasaur == Pokemon(1, "bulbasaur", <<"Grass", "Poison">>, "d_base")

Heap(a, d) == [a_base |-> a, d_base |-> d]
StdHeap == Heap(PikachuBase, BulbasaurBase)

StdMove == MkMove(Thunderbolt, <<90>>, "Electric", "special")

Moves ==
  {StdMove,
   MkMove(ThunderPunch, <<75>>, "Electric", "physical"),
   MkMove(<<"huo", "yan", "quan">>, <<60>>, "Fire", "physical"),
   MkMove(<<"shui", "qiang">>, <<40>>, "Water", "special"),
   MkMove(<<"di", "zhen">>, <<100>>, "Ground", "physical"),
   MkMove(<<"zhuang", "ji">>, <<40>>, "Normal", "physical"),
   MkMove(<<"jin", "shen">>, <<120>>, "Fighting", "physical"),
   MkMove(<<"bing", "dong", "guang">>, <<90>>, "Ice", "special"),
   MkMove(<<"chong", "yao">>, <<60>>, "Bug", "physical"),
   MkMove(<<"ye", "ren">>, <<90>>, "Grass", "physical")}

FewMoves == {m \in Moves : m.type \in {"Electric", "Fire", "Water", "Normal"}}

Input(slf, h, att, def, mv) ==
  /\ self = slf
  /\ heap = h
  /\ attacker = att
  /\ defender = def
  /\ move = mv

\* abilities on both sides against every move
AbilityInputs ==
  \E a \in OffensiveNames \cup {"", "static", " technician ", "  "},
     d \in DefensiveNames \cup {"", "overgrow"},
     mv \in Moves :
    Input(LoadedCalculator, StdHeap, With(Pikachu, [ability |-> a]),
         With(Bulbasaur, [ability |-> d]), mv)

\* items on both sides, for holders the items name and holders they do not
ItemInputs ==
  \E ai \in DOMAIN attacker_items \cup {"", "leftovers", " "},
     an \in {"pikachu", "marowak"},
     di \in DOMAIN defender_items \cup {"", "leftovers"},
     did \in {1, 3, 999},
     mv \in FewMoves :
    Input(LoadedCalculator, StdHeap,
         With(Pikachu, [item |-> ai, name |-> an]),
         With(Bulbasaur, [item |-> di, id |-> did]), mv)

\* status, weather, assist and screens
FieldInputs ==
  \E slf \in {LoadedCalculator},
     st \in {"", "burn"},
     aw \in {"", "sunny", "rain", "sandstorm"},
     as \in {"", "help"},
     ab \in {"", "guts"},
     dw \in {"", "sunny", "rain"},
     sc \in {<<>>, <<"reflect">>, <<"light_screen">>, <<"reflect", "light_screen">>},
     mv \in FewMoves :
    Input(slf, StdHeap,
         With(Pikachu, [status |-> st, weather |-> aw, assist_status |-> as,
                        ability |-> ab]),
         With(Bulbasaur, [weather |-> dw, screens |-> sc]), mv)

\* defender typings against every move type, with the effects that read
\* the type multiplier
TypingInputs ==
  \E ai \in {"", "expert_belt"},
     ab \in {"", "scrappy"},
     dt \in {<<"Ghost">>, <<"Water", "Flying">>, <<"Grass", "Dragon">>,
             <<"Ground">>, <<"Steel", "Rock">>},
     d \in {"", "filter", "thick_fat", "levitate"},
     mv \in Moves :
    Input(LoadedCalculator, StdHeap,
         With(Pikachu, [item |-> ai, ability |-> ab]),
         With(Bulbasaur, [types |-> dt, ability |-> d]), mv)

\* levels, natures, base stats, IVs and EVs, and the move's power
StatInputs ==
  \E ab \in {PikachuBase, HighBase, OddBase},
     db \in {BulbasaurBase, ZeroBase},
     al \in Levels,
     an \in {"adamant", "jolly"},
     dl \in {1, 100},
     ev \in {<<>>, MkStats(252, 0, 6, 0, 252, 0)},
     pw \in Powers,
     cat \in {"physical", "special"} :
    Input(LoadedCalculator, Heap(ab, db),
          With(Pikachu, [level |-> al, nature |-> an]),
          With(Bulbasaur, [level |-> dl, evs |-> ev]),
          MkMove(ThunderPunch, <<pw>>, "Electric", cat))

\* absent objects and moves with missing or null fields
MalformedMoves ==
  {NoneObject, StdMove,
   Without(StdMove, {"type"}), Without(StdMove, {"category"}),
   Without(StdMove, {"power"}), Without(StdMove, {"name"}),
   With(StdMove, [power |-> None]),
   With(MkMove(ThunderPunch, None, "Electric", "physical"), [accuracy |-> 100])}

MalformedInputs ==
  \E slf \in {LoadedCalculator, BareCalculator},
     att \in {NoneObject, Pikachu, With(Pikachu, [ability |-> "technician"]),
              With(Pikachu, [ability |-> "iron_fist"])},
     def \in {NoneObject, Bulbasaur},
     mv \in MalformedMoves :
    Input(slf, StdHeap, att, def, mv)

\* defenders whose Defense the items and screens rescale, and defenders
\* whose derived Defense is missing, 0 or negative
DefenseInputs ==
  \E di \in {"", "eviolite", "assault_vest"},
     sc \in {<<>>, <<"reflect">>, <<"light_screen">>, <<"reflect", "light_screen">>},
     db \in {BulbasaurBase, ZeroBase, OddBase},
     iv \in {<<>>, ("Defense" :> -5) @@ ("Sp. Defense" :> -5),
             ("Defense" :> -36) @@ ("Sp. Defense" :> -36)},
     mv \in {StdMove, MkMove(ThunderPunch, <<75>>, "Electric", "physical")} :
    Input(LoadedCalculator, Heap(PikachuBase, db), Pikachu,
          With(Bulbasaur, [item |-> di, screens |-> sc, ivs |-> iv, level |-> 100]), mv)

\* the four abilities of hp_trigger_map, with and without an ability table,
\* for attackers of different HP
SignatureInputs ==
  \E slf \in {LoadedCalculator, BareCalculator},
     a \in DOMAIN hp_trigger_map \cup {" blaze "},
     ab \in {PikachuBase, ZeroBase},
     iv \in {<<>>, "HP" :> 0},
     mv \in Moves :
    Input(slf, Heap(ab, BulbasaurBase), With(Pikachu, [ability |-> a, ivs |-> iv]),
          Bulbasaur, mv)

Inputs ==
  \/ SignatureInputs
  \/ DefenseInputs
  \/ AbilityInputs
  \/ ItemInputs
  \/ FieldInputs
  \/ TypingInputs
  \/ StatInputs
  \/ MalformedInputs

----------------------------------------------------------------------------
(* The state machine: the caller holds a calculator, two Pokemon and a    *)
(* move, and makes calls in any order.                                    *)

NoCall == [op |-> "none"]

\* the dicts that outlive a call: those the caller's objects refer to
Persist(h) == [r \in DOMAIN heap |-> h[r]]

\* explicit random factors, and the values random.uniform(0.85, 1.0) may return
ExplicitFactors == {<<17, 20>>, One}
Draws == {<<17, 20>>, <<23, 25>>}

NoResult ==
  /\ call = NoCall
  /\ result = None
  /\ first = NoneObject

Init == Inputs /\ NoResult

\* the call returns: its value, and the caller's dicts as the call left them
Return(r) ==
  /\ result' = r.ret
  /\ heap' = Persist(r.heap)

\* the same for a call that returns a dict it has built
ReturnDict(r) ==
  /\ result' = r.heap[r.ref]
  /\ heap' = Persist(r.heap)

CalculateStats(who) ==
  /\ ~IsNone(IF who = "attacker" THEN attacker ELSE defender)
  /\ ReturnDict(calculate_stats(heap, self.natures_data,
                                IF who = "attacker" THEN attacker ELSE defender, "t"))
  /\ call' = [op |-> "calculate_stats", who |-> who]
  /\ UNCHANGED <<self, attacker, defender, move>>

CalculateDamageDirect(critical_hit, random_factor, draw) ==
  /\ random_factor # None => draw = One
  /\ Return(calculate_damage_direct(self, heap, attacker, defender, move,
                                    critical_hit, random_factor, draw))
  /\ call' = [op |-> "calculate_damage_direct", critical_hit |-> critical_hit,
              random_factor |-> random_factor]
  /\ UNCHANGED <<self, attacker, defender, move>>

\* the JSON documents a front end sends for the caller's objects
JsonShapes == {"full", "sparse", "no_attacker", "no_defender", "no_move", "no_types"}

JsonPokemon(shape, p) ==
  IF IsNone(p) THEN p
  ELSE IF shape = "sparse" THEN Without(p, DOMAIN p \ {"id", "name", "types", "base_stats"})
  ELSE IF shape = "no_types" THEN Without(p, {"types"})
  ELSE p

JsonData(shape, att, def, mv) ==
  LET doc == [attacker |-> JsonPokemon(shape, att),
              defender |-> JsonPokemon(shape, def),
              move |-> mv,
              critical_hit |-> TRUE,
              random_factor |-> One]
  IN IF shape = "sparse" THEN Without(doc, {"critical_hit", "random_factor"})
     ELSE IF shape = "no_attacker" THEN Without(doc, {"attacker"})
     ELSE IF shape = "no_defender" THEN Without(doc, {"defender"})
     ELSE IF shape = "no_move" THEN Without(doc, {"move"})
     ELSE doc

CalculateDamageFromJson(shape, draw) ==
  /\ Return(calculate_damage_from_json(self, heap,
                                       JsonData(shape, attacker, defender, move), draw))
  /\ call' = [op |-> "calculate_damage_from_json", shape |-> shape]
  /\ UNCHANGED <<self, attacker, defender, move>>

CalculateDamageRange(critical_hit) ==
  /\ Return(calculate_damage_range(self, heap, attacker, defender, move, critical_hit))
  /\ call' = [op |-> "calculate_damage_range", critical_hit |-> critical_hit]
  /\ UNCHANGED <<self, attacker, defender, move>>

\* the caller's position: no call made yet
Ready == call = NoCall

DirectCalls ==
  \E c \in BOOLEAN, rf \in ExplicitFactors \cup {None}, d \in Draws \cup {One} :
    CalculateDamageDirect(c, rf, d)

JsonCalls == \E shape \in JsonShapes : CalculateDamageFromJson(shape, <<23, 25>>)

RangeCalls == \E c \in BOOLEAN : CalculateDamageRange(c)

StatsCalls == \E who \in {"attacker", "defender"} : CalculateStats(who)

(* One request, as run_json_mode and main serve it: the objects are built, *)
(* one damage call is made.                                                *)
Next ==
  /\ Ready
  /\ \/ DirectCalls
     \/ JsonCalls
  /\ UNCHANGED first

Spec == Init /\ [][Next]_vars

----------------------------------------------------------------------------
(* get_type_effectiveness on every attack type, listed in the chart or    *)
(* not, against every list of defense types.                              *)

MaxDefenseTypes == 2

TypeNames == DOMAIN type_effectiveness \cup {"Stellar"}

RECURSIVE TypeLists(_)
TypeLists(n) ==
  IF n = 0 THEN {<<>>}
  ELSE {Append(l, t) : l \in TypeLists(n - 1), t \in TypeNames}

GetTypeEffectiveness ==
  /\ result' = get_type_effectiveness(self.type_effectiveness, move.type, defender.types)
  /\ call' = [op |-> "get_type_effectiveness"]
  /\ UNCHANGED <<self, heap, attacker, defender, move, first>>

InitType ==
  /\ \E t \in TypeNames, n \in 1..MaxDefenseTypes :
       \E dts \in TypeLists(n) :
         Input(LoadedCalculator, StdHeap, Pikachu, With(Bulbasaur, [types |-> dts]),
               MkMove(Thunderbolt, <<90>>, t, "special"))
  /\ NoResult

NextType == GetTypeEffectiveness

SpecType == InitType /\ [][NextType]_vars

----------------------------------------------------------------------------
(* calculate_stats on Pokemon of every level, nature, IV and EV shape.    *)

InitStats ==
  /\ \E slf \in {LoadedCalculator, BareCalculator},
        ab \in {PikachuBase, HighBase, ZeroBase, OddBase},
        lv \in Levels,
        nt \in {"hardy", "adamant", "bold", "calm", "jolly"},
        iv \in {DefaultIvs, <<>>, DefaultEvs, ("HP" :> 0) @@ ("Attack" :> 15)},
        ev \in {DefaultEvs, <<>>, MkStats(252, 3, 4, 255, 7, 85),
                ("Defense" :> 252) @@ ("Speed" :> 6)} :
       Input(slf, Heap(ab, BulbasaurBase),
             With(Pikachu, [level |-> lv, nature |-> nt, ivs |-> iv, evs |-> ev]),
             With(Bulbasaur, [level |-> lv, nature |-> nt]), StdMove)
  /\ NoResult

NextStats == StatsCalls /\ UNCHANGED first

SpecStats == InitStats /\ [][NextStats]_vars

----------------------------------------------------------------------------
(* calculate_damage_range: one range request per pair and move.           *)

InitRange == (TypingInputs \/ MalformedInputs) /\ NoResult

NextRange == Ready /\ RangeCalls /\ UNCHANGED first

SpecRange == InitRange /\ [][NextRange]_vars

----------------------------------------------------------------------------
(* A long-lived caller: any sequence of calls on the same objects.  first  *)
(* keeps the first direct call that passed a random factor, what it       *)
(* returned, and whether a different call has been made since.            *)

SeqInputs ==
  \E a \in {NoneObject,
            With(Pikachu, [item |-> "light_ball", ability |-> "technician"]),
            With(Pikachu, [item |-> "life_orb", nature |-> "adamant"])},
     d \in {With(Bulbasaur, [item |-> "eviolite", ability |-> "thick_fat"]),
            With(Bulbasaur, [item |-> "assault_vest", screens |-> <<"light_screen">>])},
     mv \in {StdMove, With(StdMove, [power |-> None]),
             MkMove(<<"huo", "yan", "quan">>, <<60>>, "Fire", "physical")} :
    Input(LoadedCalculator, StdHeap, a, d, mv)

InitSeq == SeqInputs /\ NoResult

Remember ==
  first' = IF ~IsNone(first)
           THEN [first EXCEPT !.between = first.between \/ call' # first.call]
           ELSE IF call'.op = "calculate_damage_direct" /\ call'.random_factor # None
           THEN [call |-> call', result |-> result', between |-> FALSE]
           ELSE first

SeqDirectCalls ==
  \E c \in BOOLEAN, rf \in ExplicitFactors \cup {None} :
    CalculateDamageDirect(c, rf, IF rf = None THEN <<23, 25>> ELSE One)

SeqJsonCalls == \E shape \in {"full", "sparse"} : CalculateDamageFromJson(shape, <<17, 20>>)

NextSeq ==
  /\ \/ SeqDirectCalls
     \/ SeqJsonCalls
     \/ RangeCalls
     \/ StatsCalls
  /\ Remember

SpecSeq == InitSeq /\ [][NextSeq]_vars

----------------------------------------------------------------------------
(* calculate_damage, as main calls it: the move given by its catalog id.  *)

\* ids of the catalog and one it does not list
MoveIds == DOMAIN moves_data \cup {7}

CalculateDamage(move_id, critical_hit, random_factor, draw) ==
  /\ random_factor # None => draw = One
  /\ Return(calculate_damage(self, heap, attacker, defender, move_id,
                             critical_hit, random_factor, draw))
  /\ call' = [op |-> "calculate_damage", move_id |-> move_id,
              critical_hit |-> critical_hit, random_factor |-> random_factor,
              draw |-> draw]
  /\ UNCHANGED <<self, attacker, defender, move>>

CatalogCalls ==
  \E id \in MoveIds, c \in BOOLEAN, rf \in ExplicitFactors \cup {None}, d \in Draws \cup {One} :
    CalculateDamage(id, c, rf, d)

CatalogInputs ==
  \E slf \in {LoadedCalculator, BareCalculator},
     a \in OffensiveNames \cup {""},
     ai \in DOMAIN attacker_items \cup {""},
     d \in {NoneObject, Bulbasaur, With(Bulbasaur, [ability |-> "volt_absorb"]),
            With(Bulbasaur, [types |-> <<"Water", "Flying">>, item |-> "berry"])} :
    Input(slf, StdHeap, With(Pikachu, [ability |-> a, item |-> ai]), d, StdMove)

InitCatalog == CatalogInputs /\ NoResult

NextCatalog == Ready /\ CatalogCalls /\ UNCHANGED first

SpecCatalog == InitCatalog /\ [][NextCatalog]_vars

----------------------------------------------------------------------------
(* get_damage_statistics and calculate_damage_range: one request per pair *)
(* and move, the defender's HP given by the caller or derived.            *)

\* defender_max_hp arguments: None and HP totals below, inside and above
\* the damages of the pairs
MaxHpArguments == {None, <<1>>, <<40>>, <<100>>}

GetDamageStatistics(defender_max_hp) ==
  /\ Return(get_damage_statistics(self, heap, attacker, defender, move, defender_max_hp))
  /\ call' = [op |-> "get_damage_statistics", defender_max_hp |-> defender_max_hp]
  /\ UNCHANGED <<self, attacker, defender, move>>

StatisticsCalls == \E hp \in MaxHpArguments : GetDamageStatistics(hp)

StatisticsInputs ==
  \E ai \in {"", "life_orb"},
     al \in Levels,
     dt \in {<<"Grass", "Poison">>, <<"Water", "Flying">>, <<"Ground">>},
     dl \in {1, 50},
     mv \in FewMoves :
    Input(LoadedCalculator, StdHeap,
          With(Pikachu, [item |-> ai, level |-> al]),
          With(Bulbasaur, [types |-> dt, level |-> dl]), mv)

InitStatistics == (StatisticsInputs \/ MalformedInputs) /\ NoResult

NextStatistics ==
  /\ Ready
  /\ \/ StatisticsCalls
     \/ RangeCalls
  /\ UNCHANGED first

SpecStatistics == InitStatistics /\ [][NextStatistics]_vars

----------------------------------------------------------------------------
(* Properties *)

\* the last call was calculate_damage_direct with an explicit random factor
\* and returned a result, not an error
DirectResult ==
  /\ call.op = "calculate_damage_direct"
  /\ call.random_factor # None
  /\ "error" \notin DOMAIN result

\* C1: whenever calculate_damage_direct, called with an explicit random
\* factor, returns a non-error result, modifiers.final_modifier is an
\* integer that is at least 1.
C1_FinalModifierAtLeastOne ==
  DirectResult => /\ result.modifiers.final_modifier \in Int
                  /\ result.modifiers.final_modifier >= 1

\* the clamp acts: the floored product is 0 and final_modifier is 1
C1_Witness ==
  /\ DirectResult
  /\ result.modifiers.type_multiplier = Zero
  /\ result.modifiers.final_modifier = 1

Tiers == {Zero, Quarter, Half, One, Two, Four}

\* C3: get_type_effectiveness returns one of 0, 0.25, 0.5, 1, 2, 4 for
\* every attack type, recognized or not, and every list of defense types.
C3_EffectivenessInTiers ==
  call.op = "get_type_effectiveness" => result \in Tiers

\* a double resistance: two defense types, the result 0.25
C3_Witness ==
  /\ call.op = "get_type_effectiveness"
  /\ Len(defender.types) = 2
  /\ result = Quarter

\* the table multiplier of one pair, an unlisted pair counting as 1.0
TableMultiplier(attack_type, defense_type) ==
  IF attack_type \in DOMAIN type_effectiveness
     /\ defense_type \in DOMAIN type_effectiveness[attack_type]
  THEN type_effectiveness[attack_type][defense_type]
  ELSE One

RECURSIVE TableProduct(_, _)
TableProduct(attack_type, defense_types) ==
  IF defense_types = <<>> THEN One
  ELSE RMul(TableMultiplier(attack_type, Head(defense_types)),
            TableProduct(attack_type, Tail(defense_types)))

\* C4: get_type_effectiveness returns the product of the per-defense-type
\* table multipliers whenever that product is one of 0, 0.25, 0.5, 1, 2, 4;
\* in particular a defense type whose entry is 0 gives 0.
C4_EffectivenessIsProduct ==
  (call.op = "get_type_effectiveness"
     /\ TableProduct(move.type, defender.types) \in Tiers)
    => result = TableProduct(move.type, defender.types)

\* the stat the claim's formulas give for one key of base_stats
ClaimedIv(p, k) == IF k \in DOMAIN p.ivs THEN p.ivs[k] ELSE 31
ClaimedEv(p, k) == IF k \in DOMAIN p.evs THEN p.evs[k] ELSE 0
ClaimedNature(p, k) ==
  IF p.nature \in DOMAIN self.natures_data /\ k \in DOMAIN self.natures_data[p.nature]
  THEN self.natures_data[p.nature][k]
  ELSE One
ClaimedCore(p, k, base) ==
  ((2 * base + ClaimedIv(p, k) + ClaimedEv(p, k) \div 4) * p.level) \div 100
ClaimedStat(p, k, base) ==
  IF k = "HP" THEN ClaimedCore(p, k, base) + p.level + 10
  ELSE ((ClaimedCore(p, k, base) + 5) * ClaimedNature(p, k)[1])
         \div ClaimedNature(p, k)[2]

\* the Pokemon the last calculate_stats call was given
StatsSubject == IF call.who = "attacker" THEN attacker ELSE defender

\* C5: calculate_stats returns, for every key of base_stats, the HP or
\* other-stat formula with a missing IV as 31, a missing EV as 0 and a
\* missing nature or nature entry as 1.0; every stat is a non-negative
\* integer.
C5_StatsFormula ==
  call.op = "calculate_stats" =>
    /\ DOMAIN result = DOMAIN heap[StatsSubject.base_stats]
    /\ \A k \in DOMAIN result :
         /\ result[k] = ClaimedStat(StatsSubject, k, heap[StatsSubject.base_stats][k])
         /\ result[k] \in Nat

\* a nature entry, a missing IV and a non-multiple-of-4 EV all in play
C5_Witness ==
  /\ call.op = "calculate_stats"
  /\ call.who = "attacker"
  /\ attacker.nature = "adamant"
  /\ self = LoadedCalculator
  /\ attacker.ivs = <<>>
  /\ attacker.evs = MkStats(252, 3, 4, 255, 7, 85)
  /\ attacker.level = 100
  /\ result = MkStats(274, 160, 117, 179, 137, 237)

\* C6: every calculate_stats and calculate_damage_direct call, the item
\* steps included, leaves the attacker and defender records with their
\* base_stats dicts, the move record and the calculator's tables as they
\* were: after any sequence of calls each equals its value before the first.
C6_CallsLeaveInputsUnchanged ==
  [][call'.op \in {"calculate_stats", "calculate_damage_direct"}
       => UNCHANGED <<self, heap, attacker, defender, move>>]_vars

\* a direct call in which both item steps rescaled a derived stat, after
\* which the base stats are still the ones given
C6_Witness ==
  /\ call.op = "calculate_damage_direct"
  /\ "error" \notin DOMAIN result
  /\ attacker.item = "light_ball"
  /\ defender.item = "eviolite"
  /\ ~IsNone(first) /\ first.between
  /\ result.stats_used.attack_stat > 2 * heap[attacker.base_stats]["Sp. Attack"]
  /\ heap = StdHeap

\* C7: a calculate_damage_direct call with the attacker, defender, move,
\* critical flag and explicit random factor of an earlier one returns the
\* result the earlier one returned, whatever calls were made in between.
C7_RepeatedCallSameResult ==
  (~IsNone(first) /\ call = first.call) => result = first.result

\* the first call repeated after a different call, with a damage result
C7_Witness ==
  /\ ~IsNone(first)
  /\ first.between
  /\ call = first.call
  /\ "error" \notin DOMAIN result
  /\ result = first.result
  /\ attacker.item # ""

\* explicit random_factor 0.85 + i*(0.15/15)
ClaimedRangeFactor(i) == RAdd(<<17, 20>>, RMul(RInt(i), RDivInt(<<3, 20>>, 15)))

\* the independent direct call for index i
IndependentCall(i) ==
  calculate_damage_direct(self, heap, attacker, defender, move, call.critical_hit,
                          ClaimedRangeFactor(i), One).ret

\* C8: for inputs on which calculate_damage_direct returns a result,
\* calculate_damage_range returns exactly 16 integers, the one at index i
\* (from 0) being the damage of an independent calculate_damage_direct call
\* with the same attacker, defender, move and critical flag and the explicit
\* random factor 0.85 + i*(0.15/15).
C8_RangeMatchesDirectCalls ==
  (call.op = "calculate_damage_range"
     /\ \A i \in 0..15 : "error" \notin DOMAIN IndependentCall(i))
    => /\ Len(result) = 16
       /\ \A i \in 0..15 : /\ result[i + 1] \in Int
                            /\ result[i + 1] = IndependentCall(i).damage

\* a range whose ends differ
C8_Witness ==
  /\ call.op = "calculate_damage_range"
  /\ Len(result) = 16
  /\ result[1] < result[16]
  /\ result[16] = IndependentCall(15).damage

\* the caller's input is malformed: an object is absent, or the move has no
\* type or no category
Malformed ==
  \/ IsNone(attacker)
  \/ IsNone(defender)
  \/ IsNone(move)
  \/ "type" \notin DOMAIN move
  \/ "category" \notin DOMAIN move
  \/ /\ call.op = "calculate_damage_from_json"
     /\ call.shape \in {"no_attacker", "no_defender", "no_move"}

\* C9: on malformed input (attacker, defender or move missing, a move
\* without type or category) calculate_damage_direct and
\* calculate_damage_from_json return a dict holding an error message and
\* nothing else, and no exception leaves the call.
C9_MalformedInputGivesErrorOnly ==
  (call.op \in {"calculate_damage_direct", "calculate_damage_from_json"} /\ Malformed)
    => /\ DOMAIN result = {"error"}
       /\ Len(result.error) > 0

\* a move without a type, both Pokemon present: the KeyError is reported
C9_Witness ==
  /\ call.op = "calculate_damage_direct"
  /\ ~IsNone(attacker) /\ ~IsNone(defender) /\ ~IsNone(move)
  /\ "type" \notin DOMAIN move
  /\ result = [error |-> "Calculation error: 'type'"]

\* the move's power is absent or null, everything else is well-formed
PowerAbsentOrNull ==
  /\ ~IsNone(attacker) /\ ~IsNone(defender) /\ ~IsNone(move)
  /\ "type" \in DOMAIN move /\ "category" \in DOMAIN move
  /\ ("power" \notin DOMAIN move \/ move.power = None)

\* C10: a move whose power is absent or null counts as power 0 for every
\* attacker, one whose ability inspects the power included:
\* calculate_damage_direct returns a non-error result with base_damage 2.
C10_NullPowerIsZero ==
  (call.op = "calculate_damage_direct" /\ PowerAbsentOrNull)
    => /\ "error" \notin DOMAIN result
       /\ result.base_damage = 2

\* C11: calculate_damage returns the error result 'Move not found' when
\* move_id is not in the move catalog, and otherwise exactly what
\* calculate_damage_direct returns for the catalog entry of move_id with the
\* same attacker, defender, critical flag and random factor.
C11_CatalogLookupThenDirect ==
  call.op = "calculate_damage" =>
    IF call.move_id \in DOMAIN self.moves_data
    THEN result = calculate_damage_direct(self, heap, attacker, defender,
                                          self.moves_data[call.move_id],
                                          call.critical_hit, call.random_factor,
                                          call.draw).ret
    ELSE result = [error |-> "Move not found"]

\* the punch of the catalog, by id, for an iron-fist attacker: the entry's
\* name reached the ability step
C11_Witness ==
  /\ call.op = "calculate_damage"
  /\ call.move_id = 9
  /\ attacker.ability = "iron_fist"
  /\ "error" \notin DOMAIN result
  /\ result.modifiers.other_modifiers = <<6, 5>>

\* the defender's max HP of the last statistics call: the caller's value,
\* or the derived HP stat when the caller gave none
StatisticsMaxHp ==
  IF call.defender_max_hp # None THEN call.defender_max_hp[1]
  ELSE ClaimedStat(defender, "HP", heap[defender.base_stats]["HP"])

\* the 16 range values of one variant, computed on their own
RangeValues(critical_hit) ==
  calculate_damage_range(self, heap, attacker, defender, move, critical_hit).ret

\* min, max and ohko_chance of one entry against its 16 values
StatisticsMatch(entry, values) ==
  /\ Len(values) = 16
  /\ entry.range = values
  /\ \E i \in 1..16 : entry.min = values[i]
  /\ \A i \in 1..16 : entry.min <= values[i]
  /\ \E i \in 1..16 : entry.max = values[i]
  /\ \A i \in 1..16 : entry.max >= values[i]
  /\ entry.ohko_chance
       = R(Cardinality({i \in 1..16 : values[i] >= StatisticsMaxHp}), 16)

\* C14: for inputs on which the single calls succeed, get_damage_statistics
\* returns for the non-critical and for the critical range min and max equal
\* to the least and the greatest of the 16 range values, and ohko_chance
\* equal to (number of the 16 values >= defender max HP) / 16, defender max
\* HP being the defender's derived HP stat when the caller gives none.
C14_StatisticsOfTheRanges ==
  (call.op = "get_damage_statistics" /\ Len(RangeValues(FALSE)) = 16)
    => /\ DOMAIN result = {"normal", "critical"}
       /\ StatisticsMatch(result.normal, RangeValues(FALSE))
       /\ StatisticsMatch(result.critical, RangeValues(TRUE))

\* the derived HP lies inside the non-critical range and is one of its
\* values: some rolls knock out, some do not, every critical roll does
C14_Witness ==
  /\ call.op = "get_damage_statistics"
  /\ call.defender_max_hp = None
  /\ "normal" \in DOMAIN result
  /\ RLt(Zero, result.normal.ohko_chance)
  /\ RLt(result.normal.ohko_chance, One)
  /\ result.normal.min < result.normal.max
  /\ result.critical.ohko_chance = One

\* the single-call pipeline fails on the caller's attacker, defender and move
SingleCallFails ==
  "error" \in DOMAIN calculate_damage_direct(self, heap, attacker, defender, move,
                                            FALSE, One, One).ret

\* C15: when the single-call pipeline fails for the given attacker, defender
\* and move, calculate_damage_range and get_damage_statistics surface the
\* failure (an error result or an exception) instead of returning a
\* shortened or empty range or zeroed statistics.
C15_RangeFailuresSurface ==
  (call.op \in {"calculate_damage_range", "get_damage_statistics"} /\ SingleCallFails)
    => ("error" \in DOMAIN result \/ "raised" \in DOMAIN result)

\* the defender's ability is one the calculator knows and it grants immunity
\* to the move's type
ImmunityGranted ==
  /\ defender.ability \in DOMAIN AbilityTable(self, "defensive_abilities")
  /\ \/ defender.ability \in {"lightning_rod", "volt_absorb"} /\ move.type = "Electric"
     \/ defender.ability \in {"storm_drain", "dry_skin"} /\ move.type = "Water"
     \/ defender.ability = "flash_fire" /\ move.type = "Fire"
     \/ defender.ability = "levitate" /\ move.type = "Ground"

\* the last call was calculate_damage_direct and returned a result
AnyDirectResult ==
  /\ call.op = "calculate_damage_direct"
  /\ "error" \notin DOMAIN result

\* C12: when the defender's ability grants immunity to the move's type
\* (lightning rod and volt absorb to Electric, storm drain and dry skin to
\* Water, flash fire to Fire, levitate to Ground), type_multiplier is 0
\* whatever the type chart gives, final_modifier is 1 and damage equals
\* base_damage, which is never 0.
C12_ImmunityGivesBaseDamage ==
  (AnyDirectResult /\ ImmunityGranted)
    => /\ result.modifiers.type_multiplier = Zero
       /\ result.modifiers.final_modifier = 1
       /\ result.damage = result.base_damage
       /\ result.damage > 0

\* levitate against a Ground move that the chart makes 4x effective
C12_Witness ==
  /\ AnyDirectResult
  /\ defender.ability = "levitate"
  /\ move.type = "Ground"
  /\ TableProduct(move.type, defender.types) = Four
  /\ result.modifiers.type_multiplier = Zero
  /\ result.damage = result.base_damage
  /\ result.damage > 2

\* the defender's Defense (physical move) or Sp. Defense (any other) after
\* the defender item's rescaling, before the screens
ItemAdjustedDefense ==
  LET sd == calculate_stats(heap, self.natures_data, defender, "t_d")
      di == apply_defender_item_effects(sd.heap, self.defender_items,
                                        self.pokemon_data, defender, sd.ref, "m_d")
  IN DefenseStat(di.heap[di.stats], move.category)

\* reflect on a physical move, light_screen on any other: trunc(1.5 * stat)
ClaimedScreenedDefense(stat) ==
  IF \/ InList("reflect", defender.screens) /\ move.category = "physical"
     \/ InList("light_screen", defender.screens) /\ move.category # "physical"
  THEN (3 * stat) \div 2
  ELSE stat

\* ((((2*level) div 5 + 2) * power * attackStat) div defenseStat) div 50 + 2
ClaimedBaseDamage(level, power, attackStat, defenseStat) ==
  ((((2 * level) \div 5 + 2) * power * attackStat) \div defenseStat) \div 50 + 2

\* the power the claims give a move: absent or null is 0
ClaimedPower ==
  IF "power" \notin DOMAIN move \/ move.power = None THEN 0 ELSE move.power[1]

Product1 == RMul(result.modifiers.other_modifiers, result.modifiers.critical_multiplier)
Product2 == RMul(Product1, result.modifiers.random_factor)
Product3 == RMul(Product2, result.modifiers.stab_multiplier)
Product4 == RMul(Product3, result.modifiers.type_multiplier)

\* round half up: floor(x + 1/2)
ClaimedRoundHalfUp(x) == (2 * x[1] + x[2]) \div (2 * x[2])

ItemAdjustedAttack ==
  LET sa == calculate_stats(heap, self.natures_data, attacker, "t_a")
      ai == apply_attacker_item_effects(sa.heap, self.attacker_items, attacker,
                                        sa.ref, move.type, One, "m_a")
  IN AttackStat(ai.heap[ai.stats], move.category)

\* the divisor: the item-adjusted defense after the screens, at least 1
ClaimedDivisor ==
  IF ClaimedScreenedDefense(ItemAdjustedDefense) >= 1
  THEN ClaimedScreenedDefense(ItemAdjustedDefense)
  ELSE 1

\* C17: base_damage is ((((2*level) div 5 + 2) * power * attackStat) div
\* defenseStat) div 50 + 2, level being the attacker's, attackStat and
\* defenseStat Attack and Defense for a physical move and Sp. Attack and
\* Sp. Defense otherwise, after item rescaling and screen adjustment;
\* weather, status, critical hit, random factor, STAB, type effectiveness
\* and abilities do not enter it.
C17_BaseDamageFormula ==
  AnyDirectResult
    => /\ result.stats_used.attack_stat = ItemAdjustedAttack
       /\ result.base_damage
            = ClaimedBaseDamage(attacker.level, ClaimedPower, ItemAdjustedAttack,
                                ClaimedDivisor)

\* a critical physical hit of a burnt choice-band holder in the rain: the
\* modifiers move, the base damage is the formula's
C17_Witness ==
  /\ AnyDirectResult
  /\ call.critical_hit
  /\ move.category = "physical"
  /\ attacker.item = "choice_band"
  /\ result.modifiers.critical_multiplier = Two
  /\ result.modifiers.stab_multiplier = OneHalf
  /\ result.stats_used.attack_stat = 112
  /\ result.base_damage
       = ClaimedBaseDamage(50, 75, 112, result.stats_used.defense_stat)
  /\ result.base_damage > 2

\* C18: the defense stat that divides in the base-damage formula is at
\* least 1, also when the derived or item-rescaled defense stat is 0 or
\* below, and no call fails with a division by zero.
C18_DivisorAtLeastOne ==
  /\ AnyDirectResult => result.stats_used.defense_stat >= 1
  /\ call # NoCall /\ "error" \in DOMAIN result
       => result.error # "Calculation error: integer division or modulo by zero"

\* a defender whose item-adjusted defense is 0: the divisor is 1
C18_Witness ==
  /\ AnyDirectResult
  /\ ItemAdjustedDefense = 0
  /\ result.stats_used.defense_stat = 1
  /\ result.base_damage
       = ClaimedBaseDamage(attacker.level, ClaimedPower, ItemAdjustedAttack, 1)

\* the field whose sunny or rain counts: the attacker's when not empty
ClaimedWeather ==
  IF attacker.weather = "" THEN defender.weather ELSE attacker.weather

\* sunny: Fire x1.5, Water x0.5; rain: Water x1.5, Fire x0.5
ClaimedWeatherFactor ==
  CASE ClaimedWeather = "sunny" /\ move.type = "Fire" -> R(3, 2)
    [] ClaimedWeather = "sunny" /\ move.type = "Water" -> R(1, 2)
    [] ClaimedWeather = "rain" /\ move.type = "Water" -> R(3, 2)
    [] ClaimedWeather = "rain" /\ move.type = "Fire" -> R(1, 2)
    [] OTHER -> One

\* burn and the helping hand, the other factors of other_modifiers when
\* there are no items and no ability but guts
ClaimedStatusFactor ==
  RMul(IF attacker.status = "burn" /\ move.category = "physical"
          /\ attacker.ability # "guts" THEN R(1, 2) ELSE One,
       IF attacker.assist_status = "help" THEN R(3, 2) ELSE One)

NoItemsNoAbilities ==
  /\ attacker.item = "" /\ defender.item = ""
  /\ attacker.ability \in {"", "guts"} /\ defender.ability = ""

\* C19: the weather whose sunny or rain multiplies other_modifiers is the
\* attacker's weather field when it is not empty and the defender's only
\* when the attacker's is empty; an attacker weather that is neither empty
\* nor sunny nor rain leaves no weather effect, whatever the defender's.
C19_AttackerWeatherFirst ==
  AnyDirectResult /\ NoItemsNoAbilities
    => result.modifiers.other_modifiers
         = RMul(ClaimedStatusFactor, ClaimedWeatherFactor)

\* a Fire move under the attacker's sandstorm and the defender's sun
C19_Witness ==
  /\ AnyDirectResult /\ NoItemsNoAbilities
  /\ attacker.weather = "sandstorm" /\ defender.weather = "sunny"
  /\ attacker.status = "" /\ attacker.assist_status = ""
  /\ move.type = "Fire"
  /\ result.modifiers.other_modifiers = One

\* the type chart's effectiveness: the product of the table multipliers
\* when it is one of the tiers, 1.0 otherwise
ClaimedEffectiveness ==
  IF TableProduct(move.type, defender.types) \in Tiers
  THEN TableProduct(move.type, defender.types)
  ELSE One

RecognisedAttackerItem ==
  attacker.item # "" /\ attacker.item \in DOMAIN self.attacker_items

TypeAdvantageItem ==
  RecognisedAttackerItem /\ self.attacker_items[attacker.item].type = "type_advantage"

\* the attacker's Attack or Sp. Attack as calculate_stats derives it
DerivedAttack ==
  LET sa == calculate_stats(heap, self.natures_data, attacker, "t_a")
  IN AttackStat(sa.heap[sa.ref], move.category)

\* what a type-advantage item contributes
ClaimedAdvantageMultiplier ==
  IF RLt(One, ClaimedEffectiveness)
  THEN self.attacker_items[attacker.item].multiplier
  ELSE One

\* C20: a type-advantage attacker item contributes its multiplier to
\* attacker_item_multiplier, and through it to other_modifiers, exactly
\* when the type chart's effectiveness of the move against the defender's
\* types is above 1.0, whatever an ability makes of type_multiplier
\* afterwards; an empty or unrecognised item gives the multiplier 1.0 and
\* leaves the derived attack stat as it was.
C20_TypeAdvantageItem ==
  /\ AnyDirectResult /\ TypeAdvantageItem
       => /\ result.modifiers.attacker_item_multiplier = ClaimedAdvantageMultiplier
          /\ attacker.ability = "" /\ defender.ability = "" /\ defender.item = ""
               => result.modifiers.other_modifiers
                    = RMul(RMul(ClaimedStatusFactor, ClaimedWeatherFactor),
                           ClaimedAdvantageMultiplier)
  /\ AnyDirectResult /\ ~RecognisedAttackerItem
       => /\ result.modifiers.attacker_item_multiplier = One
          /\ result.stats_used.attack_stat = DerivedAttack

\* the expert belt on a Ground move against a levitating Steel/Rock
\* defender: the chart gives 4, the ability makes type_multiplier 0, the
\* item's 1.2 is in other_modifiers
C20_Witness ==
  /\ AnyDirectResult
  /\ attacker.item = "expert_belt"
  /\ defender.ability = "levitate"
  /\ move.type = "Ground"
  /\ ClaimedEffectiveness = R(4, 1)
  /\ result.modifiers.type_multiplier = Zero
  /\ result.modifiers.attacker_item_multiplier = R(6, 5)
  /\ result.modifiers.other_modifiers = R(6, 5)

\* the attacker's ability as the lookup sees it, and whether the offensive
\* table of the calculator holds it
AttackerAbilityName == Strip(attacker.ability)

KnownOffensiveAbility ==
  /\ AttackerAbilityName # ""
  /\ "offensive_abilities" \in DOMAIN self
  /\ AttackerAbilityName \in DOMAIN self.offensive_abilities

\* the element of each signature ability
ClaimedSignatureType ==
  ("blaze" :> "Fire") @@ ("torrent" :> "Water") @@ ("swarm" :> "Bug")
    @@ ("grass_pelt" :> "Grass")

ClaimedSignatureFactor ==
  IF move.type = ClaimedSignatureType[AttackerAbilityName] THEN R(3, 2) ELSE One

\* no item on either side and a defender whose ability does nothing
OnlyAttackerAbility ==
  /\ attacker.item = "" /\ defender.item = ""
  /\ defender.ability = ""

ClaimedStab == IF InList(move.type, attacker.types) THEN R(3, 2) ELSE One

ClaimedCritical == IF call.critical_hit THEN R(2, 1) ELSE One

\* C21: with one of the four signature abilities that the offensive table
\* holds, other_modifiers is multiplied by 1.5 exactly when the move's type
\* is the ability's (Fire, Water, Bug, Grass), whatever the attacker's HP;
\* with a blank ability or one the table does not hold, other_modifiers,
\* stab_multiplier, critical_multiplier and type_multiplier are what they
\* were before the ability step.
C21_SignatureAbilities ==
  AnyDirectResult /\ OnlyAttackerAbility
    => /\ KnownOffensiveAbility /\ AttackerAbilityName \in DOMAIN ClaimedSignatureType
            => result.modifiers.other_modifiers
                 = RMul(RMul(ClaimedStatusFactor, ClaimedWeatherFactor),
                        ClaimedSignatureFactor)
       /\ ~KnownOffensiveAbility
            => /\ result.modifiers.other_modifiers
                    = RMul(ClaimedStatusFactor, ClaimedWeatherFactor)
               /\ result.modifiers.stab_multiplier = ClaimedStab
               /\ result.modifiers.critical_multiplier = ClaimedCritical
               /\ result.modifiers.type_multiplier
                    = get_type_effectiveness(self.type_effectiveness, move.type,
                                             defender.types)

\* blaze on a Fire move for an attacker whose derived HP is the lowest the
\* inputs give: the 1.5 is there
C21_Witness ==
  /\ AnyDirectResult /\ OnlyAttackerAbility
  /\ KnownOffensiveAbility
  /\ attacker.ability = "blaze"
  /\ move.type = "Fire"
  /\ heap[attacker.base_stats]["HP"] = 0
  /\ attacker.ivs = ("HP" :> 0)
  /\ result.modifiers.other_modifiers = R(3, 2)

\* two direct calls on the same objects with the same critical flag, both
\* with an explicit random factor and a damage result: the remembered one
\* and the one just made
DirectPair ==
  /\ ~IsNone(first)
  /\ call.op = "calculate_damage_direct"
  /\ call.random_factor # None
  /\ call.critical_hit = first.call.critical_hit
  /\ "error" \notin DOMAIN first.result
  /\ "error" \notin DOMAIN result

NonDecreasing(damage_range) ==
  \A i, j \in 1..Len(damage_range) : i <= j => damage_range[i] <= damage_range[j]

\* C22: for the same attacker, defender, move and critical flag, the damage
\* of calculate_damage_direct does not decrease when the random factor
\* grows, and the list calculate_damage_range returns is non-decreasing in
\* index order, its first element the minimum and its last the maximum.
C22_DamageMonotoneInRandomFactor ==
  /\ DirectPair
       => /\ ~RLt(call.random_factor, first.call.random_factor)
               => first.result.damage <= result.damage
          /\ ~RLt(first.call.random_factor, call.random_factor)
               => result.damage <= first.result.damage
  /\ call.op = "calculate_damage_range"
       => /\ NonDecreasing(result)
          /\ result # <<>>
               => /\ result[1] = SeqMin(result)
                  /\ result[Len(result)] = SeqMax(result)

\* a range after a direct call with the factor 0.85 and the same critical
\* flag: it starts at that call's damage, its minimum, and ends higher
C22_Witness ==
  /\ call.op = "calculate_damage_range"
  /\ ~IsNone(first)
  /\ first.call.random_factor = R(17, 20)
  /\ first.call.critical_hit = call.critical_hit
  /\ "error" \notin DOMAIN first.result
  /\ Len(result) = 16
  /\ result[1] = first.result.damage
  /\ result[1] = SeqMin(result)
  /\ result[16] = SeqMax(result)
  /\ result[1] < result[16]

\* a damage result of a direct call or of the JSON entry point
ReportedDamage ==
  /\ call.op \in {"calculate_damage_direct", "calculate_damage_from_json"}
  /\ "error" \notin DOMAIN result

\* C23: every result that is not an error, for a move of non-negative power
\* and non-negative stats, has base_damage >= 2 and damage >= base_damage:
\* the damage is never 0 and never below 2, whatever the type
\* effectiveness, abilities, items, weather and random factor.
C23_DamageAtLeastBaseAtLeastTwo ==
  (ReportedDamage /\ ClaimedPower >= 0 /\ result.stats_used.attack_stat >= 0)
    => /\ result.base_damage >= 2
       /\ result.damage >= result.base_damage
       /\ result.damage >= 2

\* a levitating defender hit by a Ground move at the lowest random factor:
\* type_multiplier is 0, the product floors to 0, and the damage is still
\* the base damage
C23_Witness ==
  /\ ReportedDamage
  /\ call.op = "calculate_damage_direct"
  /\ defender.ability = "levitate"
  /\ move.type = "Ground"
  /\ ClaimedPower = 100
  /\ call.random_factor = R(17, 20)
  /\ result.modifiers.type_multiplier = Zero
  /\ result.modifiers.final_modifier = 1
  /\ result.base_damage >= 2
  /\ result.damage = result.base_damage

====
